---- MODULE Spec2Model ----
(***************************************************************************)
(* Model of the native socket helpers of js-mdns:                          *)
(*   src/native/napi/socketUtils.cpp   DisableMulticastAll                 *)
(*   src/native/napi/index.cpp         disableSocketMulticastAll,          *)
(*                                     bindDgramFd                         *)
(* The state is the kernel socket table of the process together with what  *)
(* the last native call did (the system calls it made, what it returned    *)
(* and what it threw).  Socket addresses are byte images of sockaddr_in    *)
(* and sockaddr_in6 on a little-endian Linux host; port 0 in a bound       *)
(* address stands for an ephemeral port assigned by the kernel.            *)
(***************************************************************************)
EXTENDS Integers, Sequences, FiniteSets, TLC

VARIABLES sockets, op, args, ret, exception, steps, resolved, bindArg, possible

vars == <<sockets, op, args, ret, exception, steps, resolved, bindArg, possible>>

\* Capacity of the descriptor table: socket() fails (EMFILE) once this many
\* sockets are open.
MaxSockets == 1

\* Descriptors 0..2 are the standard streams; sockets get the next ones.
Fds == 3..(2 + MaxSockets)

----------------------------------------------------------------------------
\* Values of the JavaScript side

UdpTypes == {"udp4", "udp6", "udp"}

\* bindOptions.address: a string, or not a string (absent).
AddressValues ==
  { [isString |-> FALSE, str |-> ""] } \cup
  { [isString |-> TRUE, str |-> s] : s \in {"::1", "not-an-address!!"} }

\* bindOptions.port: a number, or not a number (absent).
PortValues ==
  { [isNumber |-> FALSE, num |-> 0] } \cup
  { [isNumber |-> TRUE, num |-> n] : n \in {80, 9999} }

NoArgs == [type |-> "", address |-> [isString |-> FALSE, str |-> ""],
           port |-> [isNumber |-> FALSE, num |-> 0], fd |-> -1]

\* Napi::Value returned by a handler.
NoValue == [type |-> "Undefined", num |-> 0, bool |-> FALSE]
NullValue == [type |-> "Null", num |-> 0, bool |-> FALSE]
NumberValue(n) == [type |-> "Number", num |-> n, bool |-> FALSE]
BooleanValue(b) == [type |-> "Boolean", num |-> 0, bool |-> b]

----------------------------------------------------------------------------
\* Socket addresses: byte images of struct sockaddr_in (16 bytes) and
\* struct sockaddr_in6 (28 bytes)

Zeros(n) == [i \in 1..n |-> 0]

V4Any == <<0, 0, 0, 0>>
V4Loopback == <<127, 0, 0, 1>>
V6Any == Zeros(16)
V6Loopback == [i \in 1..16 |-> IF i = 16 THEN 1 ELSE 0]

\* sa_family_t values as the two bytes a little-endian host stores.
FamilyBytes(f) ==
  IF f = "AF_INET" THEN <<2, 0>> ELSE IF f = "AF_INET6" THEN <<10, 0>> ELSE <<0, 0>>

\* sin_family, sin_port, sin_addr, sin_zero[8]
SockaddrIn(portBytes, a) == FamilyBytes("AF_INET") \o portBytes \o a \o Zeros(8)

\* sin6_family, sin6_port, sin6_flowinfo, sin6_addr, sin6_scope_id
SockaddrIn6(portBytes, a) ==
  FamilyBytes("AF_INET6") \o portBytes \o Zeros(4) \o a \o Zeros(4)

\* What the kernel reads from a socket address.
SaFamily(sa) ==
  IF Len(sa) < 2 THEN "AF_UNSPEC"
  ELSE IF SubSeq(sa, 1, 2) = FamilyBytes("AF_INET") THEN "AF_INET"
  ELSE IF SubSeq(sa, 1, 2) = FamilyBytes("AF_INET6") THEN "AF_INET6"
  ELSE "AF_UNSPEC"

\* The port, read in network byte order (big-endian) from bytes 2..3.
SaPort(sa) == IF Len(sa) < 4 THEN 0 ELSE sa[3] * 256 + sa[4]

SaAddr(sa) ==
  IF SaFamily(sa) = "AF_INET" /\ Len(sa) >= 8 THEN SubSeq(sa, 5, 8)
  ELSE IF SaFamily(sa) = "AF_INET6" /\ Len(sa) >= 24 THEN SubSeq(sa, 9, 24)
  ELSE <<>>

\* A store of a uint16_t value at a byte offset, by a little-endian host.
StoreU16(sa, offset, v) ==
  [i \in 1..Len(sa) |->
     IF i = offset + 1 THEN v % 256
     ELSE IF i = offset + 2 THEN v \div 256
     ELSE sa[i]]

\* A host-to-network conversion that was left out.
htons_identity(x) == x % 65536

\* htons on a little-endian host: the argument is cut to 16 bits (the
\* parameter is uint16_t) and its two bytes are swapped.
htons(x) == LET u == x % 65536 IN (u % 256) * 256 + (u \div 256)

\* ((sockaddr_in *)p)->sin_port = v: sin_port is at byte offset 2.
StoreSinPort(sa, v) == StoreU16(sa, 2, v)

\* ((sockaddr_in6 *)p)->sin6_port = v: sin6_port is at byte offset 2.
StoreSin6Port(sa, v) == StoreU16(sa, 2, v)

----------------------------------------------------------------------------
\* The kernel: one entry per descriptor

NoSocket == [open |-> FALSE, family |-> "AF_UNSPEC", local |-> <<>>,
             mcastAll4 |-> FALSE, mcastAll6 |-> FALSE]

\* A fresh datagram socket: unbound, IP_MULTICAST_ALL set, and for an IPv6
\* socket IPV6_MULTICAST_ALL set too.
NewSocket(family) == [open |-> TRUE, family |-> family, local |-> <<>>,
                      mcastAll4 |-> TRUE, mcastAll6 |-> (family = "AF_INET6")]

OpenFds(s) == {fd \in Fds : s[fd].open}

IsOpen(s, fd) == fd \in Fds /\ s[fd].open

Min(S) == CHOOSE x \in S : \A y \in S : x <= y

\* socket(family, SOCK_DGRAM, 0): the values the call may return, the
\* lowest free descriptor or -1 (always -1 when the table is full).
socket(s, family) ==
  {-1} \cup (IF OpenFds(s) # Fds THEN {Min(Fds \ OpenFds(s))} ELSE {})

AfterSocket(s, family, fd) ==
  IF fd \in Fds THEN [s EXCEPT ![fd] = NewSocket(family)] ELSE s

\* Two local addresses of one family collide when they name the same
\* nonzero port and the same address, or one of them is the wildcard.
Collides(a, b) ==
  /\ SaFamily(a) = SaFamily(b)
  /\ SaPort(a) # 0
  /\ SaPort(a) = SaPort(b)
  /\ \/ SaAddr(a) = SaAddr(b)
     \/ SaAddr(a) \in {V4Any, V6Any}
     \/ SaAddr(b) \in {V4Any, V6Any}

\* bind(sockfd, addr, addrlen): the values the call may return.  It is -1
\* for a descriptor that is not open (EBADF), a family other than the
\* socket's (EAFNOSUPPORT, EINVAL), a socket already bound (EINVAL) and an
\* address in use (EADDRINUSE); otherwise 0, or -1 for any other refusal
\* (EACCES, EADDRNOTAVAIL, a port held by another process).
bind(s, fd, sa) ==
  {-1} \cup
  (IF /\ IsOpen(s, fd)
      /\ s[fd].family = SaFamily(sa)
      /\ s[fd].local = <<>>
      /\ \A o \in OpenFds(s) \ {fd} : s[o].local = <<>> \/ ~Collides(s[o].local, sa)
   THEN {0} ELSE {})

AfterBind(s, fd, sa, rc) ==
  IF rc = 0 THEN [s EXCEPT ![fd].local = sa] ELSE s

\* setsockopt(sockfd, level, IP_MULTICAST_ALL / IPV6_MULTICAST_ALL, &0):
\* the values the call may return.  It is -1 on a descriptor that is not
\* open and on the IPv6 option of an IPv4 socket; otherwise 0, or -1 when
\* the kernel refuses (ENOPROTOOPT on a kernel without the option).  The
\* IPv4 option is accepted by sockets of both families.
setsockopt(s, fd, level) ==
  {-1} \cup
  (IF IsOpen(s, fd) /\ (level = "IPPROTO_IPV6" => s[fd].family = "AF_INET6")
   THEN {0} ELSE {})

AfterSetsockopt(s, fd, level, rc) ==
  IF rc # 0 THEN s
  ELSE IF level = "IPPROTO_IP" THEN [s EXCEPT ![fd].mcastAll4 = FALSE]
  ELSE [s EXCEPT ![fd].mcastAll6 = FALSE]

\* getsockname(sockfd, &sockaddr, &len): the values the call may return,
\* -1 on a descriptor that is not open, otherwise 0 or -1 (ENOBUFS).
getsockname(s, fd) == {-1} \cup (IF IsOpen(s, fd) THEN {0} ELSE {})

\* ss_family of the buffer after the call: the socket's family (also for an
\* unbound socket) when it returned 0, else what the buffer held.
AfterGetsockname(s, fd, rc, buffer) == IF rc = 0 THEN s[fd].family ELSE buffer

\* What an uninitialised sockaddr_storage may hold in ss_family.
StackGarbage == {"AF_UNSPEC", "AF_INET", "AF_INET6"}

\* getaddrinfo(node, NULL, NULL, &result): the outcomes the resolver may
\* give for a node; with no hints the family is not constrained.  rc is 0
\* with the first entry of the list, or an EAI_ error (negative on glibc)
\* with result left unset.
Resolved(family, sa) == [rc |-> 0, ai_family |-> family, ai_addr |-> sa]

ResolveError == [rc |-> -2, ai_family |-> "AF_UNSPEC", ai_addr |-> <<>>]

getaddrinfo(node) ==
  {ResolveError} \cup
  (IF node = "0.0.0.0" THEN {Resolved("AF_INET", SockaddrIn(<<0, 0>>, V4Any))}
   ELSE IF node = "::0" THEN {Resolved("AF_INET6", SockaddrIn6(<<0, 0>>, V6Any))}
   ELSE IF node = "::1" THEN {Resolved("AF_INET6", SockaddrIn6(<<0, 0>>, V6Loopback))}
   ELSE IF node = "localhost"
     THEN {Resolved("AF_INET", SockaddrIn(<<0, 0>>, V4Loopback)),
           Resolved("AF_INET6", SockaddrIn6(<<0, 0>>, V6Loopback))}
   ELSE {})

----------------------------------------------------------------------------
\* socketUtils.cpp

Step(call, arg, rc) == [call |-> call, arg |-> arg, rc |-> rc]

\* An int result used as the truth value: -1 counts as success.
SucceededNonzero(rc) == rc # 0

\* setsockopt(...) >= 0
Succeeded(rc) == rc >= 0

\* The IPv6 result assigned without "success &&".
DisableMulticastAllOverwrite(s, sockfd, garbage, rc4, rcName, rc6) ==
  LET s1 == AfterSetsockopt(s, sockfd, "IPPROTO_IP", rc4)
      ss_family == AfterGetsockname(s1, sockfd, rcName, garbage)
      first == <<Step("setsockopt", "IPPROTO_IP", rc4), Step("getsockname", "", rcName)>>
  IN  IF ss_family = "AF_INET6"
      THEN [success |-> Succeeded(rc6),
            steps |-> Append(first, Step("setsockopt", "IPPROTO_IPV6", rc6)),
            sockets |-> AfterSetsockopt(s1, sockfd, "IPPROTO_IPV6", rc6)]
      ELSE [success |-> Succeeded(rc4), steps |-> first, sockets |-> s1]

\* DisableMulticastAll(sockfd) on the socket table s.  garbage is what the
\* sockaddr buffer holds before getsockname; rc4, rcName and rc6 are what
\* the IPv4 setsockopt, getsockname and the IPv6 setsockopt return (rc6 is
\* used only when that call is made).  The result is the boolean returned,
\* the system calls made and the socket table left behind.
DisableMulticastAll(s, sockfd, garbage, rc4, rcName, rc6) ==
  LET s1 == AfterSetsockopt(s, sockfd, "IPPROTO_IP", rc4)
      success == Succeeded(rc4)
      ss_family == AfterGetsockname(s1, sockfd, rcName, garbage)
      first == <<Step("setsockopt", "IPPROTO_IP", rc4), Step("getsockname", "", rcName)>>
  IN  IF ss_family = "AF_INET6"
      THEN IF success
           \* success && (setsockopt(...) >= 0): the right operand is
           \* evaluated only when success is true
           THEN [success |-> Succeeded(rc6),
                 steps |-> Append(first, Step("setsockopt", "IPPROTO_IPV6", rc6)),
                 sockets |-> AfterSetsockopt(s1, sockfd, "IPPROTO_IPV6", rc6)]
           ELSE [success |-> FALSE, steps |-> first, sockets |-> s1]
      ELSE [success |-> success, steps |-> first, sockets |-> s1]

\* What one call may return and which system calls it may make, over every
\* content the uninitialised sockaddr buffer can have.
PossibleOutcomes(s, sockfd, rc4, rcName, rc6) ==
  { LET r == DisableMulticastAll(s, sockfd, g, rc4, rcName, rc6)
    IN  [success |-> r.success, steps |-> r.steps] : g \in StackGarbage }

----------------------------------------------------------------------------
\* index.cpp

\* int family = AF_INET; if (type == "udp6") family = AF_INET6;
FamilyOfType(udpType) == IF udpType = "udp6" THEN "AF_INET6" ELSE "AF_INET"

\* The default address without its IPv6 branch.
BindAddressV4Only(addressValue, family) ==
  IF addressValue.isString THEN addressValue.str ELSE "0.0.0.0"

\* The address text handed to getaddrinfo.
BindAddress(addressValue, family) ==
  IF addressValue.isString THEN addressValue.str
  ELSE IF family = "AF_INET" THEN "0.0.0.0" ELSE "::0"

\* A test for positive error codes only.
ResolveFailedPositive(rc) == rc > 0

\* getaddrinfo(...) != 0
ResolveFailed(rc) == rc # 0

\* The port overlay: result->ai_addr with its port field overwritten when
\* bindOptions.port is a number.
OverlayPort(result, portValue) ==
  IF portValue.isNumber
  THEN IF result.ai_family = "AF_INET"
       THEN StoreSinPort(result.ai_addr, htons(portValue.num))
       ELSE StoreSin6Port(result.ai_addr, htons(portValue.num))
  ELSE result.ai_addr

OverlaySteps(result, portValue) ==
  IF portValue.isNumber
  THEN <<Step("htons", IF result.ai_family = "AF_INET" THEN "sin_port" ELSE "sin6_port",
              htons(portValue.num))>>
  ELSE <<>>

\* Napi handler disableSocketMulticastAll(sockfd).
disableSocketMulticastAll ==
  \E sockfd \in Fds \cup {-1}, garbage \in StackGarbage :
    \E rc4 \in setsockopt(sockets, sockfd, "IPPROTO_IP") :
      LET s1 == AfterSetsockopt(sockets, sockfd, "IPPROTO_IP", rc4)
      IN  \E rcName \in getsockname(s1, sockfd),
             rc6 \in setsockopt(s1, sockfd, "IPPROTO_IPV6") :
            LET r == DisableMulticastAll(sockets, sockfd, garbage, rc4, rcName, rc6)
            IN  /\ sockets' = r.sockets
                /\ op' = "disableSocketMulticastAll"
                /\ args' = [NoArgs EXCEPT !.fd = sockfd]
                /\ ret' = BooleanValue(r.success)
                /\ exception' = ""
                /\ steps' = r.steps
                /\ resolved' = ResolveError
                /\ bindArg' = <<>>
                /\ possible' = PossibleOutcomes(sockets, sockfd, rc4, rcName, rc6)

\* Napi handler bindDgramFd(dgramSocket, bindOptions).
bindDgramFd ==
  \E udpType \in UdpTypes, addressValue \in AddressValues, portValue \in PortValues :
    LET family == FamilyOfType(udpType)
        address == BindAddress(addressValue, family)
    IN  \E sockfd \in socket(sockets, family), result \in getaddrinfo(address) :
          LET s1 == AfterSocket(sockets, family, sockfd)
          IN  /\ op' = "bindDgramFd"
              /\ args' = [type |-> udpType, address |-> addressValue,
                          port |-> portValue, fd |-> -1]
              /\ resolved' = result
              /\ possible' = {}
              /\ IF ResolveFailed(result.rc)
                 THEN /\ sockets' = s1
                      /\ exception' = "Invalid Address"
                      /\ ret' = NullValue
                      /\ steps' = <<Step("socket", family, sockfd),
                                    Step("getaddrinfo", address, result.rc)>>
                      /\ bindArg' = <<>>
                 ELSE LET sa == OverlayPort(result, portValue)
                      IN  \E rc \in bind(s1, sockfd, sa) :
                            /\ sockets' = AfterBind(s1, sockfd, sa, rc)
                            /\ exception' = ""
                            /\ ret' = NumberValue(sockfd)
                            /\ steps' = <<Step("socket", family, sockfd),
                                          Step("getaddrinfo", address, result.rc)>>
                                        \o OverlaySteps(result, portValue)
                                        \o <<Step("bind", "", rc)>>
                            /\ bindArg' = sa

----------------------------------------------------------------------------

Init ==
  /\ sockets = [fd \in Fds |-> NoSocket]
  /\ op = "none"
  /\ args = NoArgs
  /\ ret = NoValue
  /\ exception = ""
  /\ steps = <<>>
  /\ resolved = ResolveError
  /\ bindArg = <<>>
  /\ possible = {}

Next == bindDgramFd \/ disableSocketMulticastAll

Spec == Init /\ [][Next]_vars

----------------------------------------------------------------------------
\* Properties

IsBind == op = "bindDgramFd"

IsDisable == op = "disableSocketMulticastAll"

Made(call) == \E i \in DOMAIN steps : steps[i].call = call

MadeOption(level) ==
  \E i \in DOMAIN steps : steps[i].call = "setsockopt" /\ steps[i].arg = level

LastRc == steps[Len(steps)].rc

\* C1: when address resolution fails in bindDgramFd, the set of open socket
\* descriptors after the call equals the set before it.
C1_NoSocketOnResolveFailure ==
  [][(op' = "bindDgramFd" /\ exception' = "Invalid Address")
       => OpenFds(sockets') = OpenFds(sockets)]_vars

\* C2: the family of the address passed to bind equals the family selected
\* from the socket-type tag.
C2_BindFamilyMatchesType ==
  (IsBind /\ Made("bind")) =>
    SaFamily(bindArg) = (IF args.type = "udp6" THEN "AF_INET6" ELSE "AF_INET")

\* C3: a descriptor returned by bindDgramFd is a socket created by this call
\* and bound to the resolved, port-overlaid address (-1 is taken as a value
\* the caller can tell from a descriptor).
C3_ReturnedDescriptorIsBound ==
  (IsBind /\ ret.type = "Number" /\ ret.num # -1) =>
    /\ IsOpen(sockets, ret.num)
    /\ steps[1].call = "socket" /\ steps[1].rc = ret.num
    /\ sockets[ret.num].local = bindArg

\* C4: when resolution fails, bindDgramFd throws "Invalid Address", returns
\* null, and runs neither the port overlay nor bind.
C4_ResolveFailureRaises ==
  (IsBind /\ resolved.rc # 0) =>
    /\ exception = "Invalid Address"
    /\ ret = NullValue
    /\ ~Made("htons")
    /\ ~Made("bind")
    /\ bindArg = <<>>

C4_Witness ==
  /\ IsBind /\ resolved.rc # 0
  /\ args.port.isNumber
  /\ exception = "Invalid Address" /\ ret.type = "Null"

\* C5: DisableMulticastAll returns true exactly when every option-set call it
\* made succeeded; a failed IPv4 option-set gives false whether or not the
\* IPv6 one is made.
C5_TrueIffAllOptionSetsSucceeded ==
  IsDisable =>
    /\ ret.type = "Boolean"
    /\ ret.bool <=> (\A i \in DOMAIN steps :
                       steps[i].call = "setsockopt" => steps[i].rc >= 0)
    /\ (steps[1].call = "setsockopt" /\ steps[1].rc < 0) => ~ret.bool

C5_Witness ==
  /\ IsDisable /\ Len(steps) = 3
  /\ steps[1].rc = 0 /\ steps[3].call = "setsockopt" /\ steps[3].rc = -1
  /\ ~ret.bool

\* C6: on a descriptor that is not open every call fails and the result is
\* false with nothing thrown, whatever the address buffer held.
C6_InvalidDescriptorReturnsFalse ==
  (IsDisable /\ ~IsOpen(sockets, args.fd)) =>
    /\ \A i \in DOMAIN steps : steps[i].rc = -1
    /\ ret = BooleanValue(FALSE)
    /\ exception = ""
    /\ \A o \in possible : ~o.success

C6_Witness ==
  /\ IsDisable /\ args.fd \in Fds /\ ~IsOpen(sockets, args.fd)
  /\ Len(steps) = 2 /\ steps[1].rc = -1 /\ steps[2].rc = -1
  /\ ret = BooleanValue(FALSE)

\* C7: the port of the address passed to bind is the supplied port when one
\* is given (0..65535) and 0 otherwise; it is stored through sin_port for an
\* IPv4 result and through sin6_port otherwise, and no other byte of the
\* resolved address changes.
C7_PortOverlay ==
  (IsBind /\ Made("bind")) =>
    /\ (args.port.isNumber /\ args.port.num \in 0..65535)
         => SaPort(bindArg) = args.port.num
    /\ ~args.port.isNumber => (SaPort(bindArg) = 0 /\ ~Made("htons"))
    /\ args.port.isNumber =>
         \E i \in DOMAIN steps :
           /\ steps[i].call = "htons"
           /\ steps[i].arg = (IF SaFamily(resolved.ai_addr) = "AF_INET"
                              THEN "sin_port" ELSE "sin6_port")
    /\ Len(bindArg) = Len(resolved.ai_addr)
    /\ \A i \in DOMAIN bindArg : i \notin {3, 4} => bindArg[i] = resolved.ai_addr[i]
    /\ SaAddr(bindArg) = SaAddr(resolved.ai_addr)

C7_Witness ==
  /\ IsBind /\ Made("bind") /\ LastRc = 0
  /\ args.port.isNumber /\ args.port.num = 9999
  /\ SaFamily(bindArg) = "AF_INET6" /\ SaAddr(bindArg) = V6Loopback
  /\ SaPort(bindArg) = 9999

\* C8: with no address given, the address passed to bind (and taken by the
\* socket when bind succeeds) is the wildcard of the family of the type tag:
\* IPv6 for "udp6", IPv4 for every other tag.
C8_DefaultWildcard ==
  (IsBind /\ ~args.address.isString /\ Made("bind")) =>
    LET v6 == args.type = "udp6"
    IN  /\ steps[1].arg = (IF v6 THEN "AF_INET6" ELSE "AF_INET")
        /\ steps[2].arg = (IF v6 THEN "::0" ELSE "0.0.0.0")
        /\ SaFamily(bindArg) = (IF v6 THEN "AF_INET6" ELSE "AF_INET")
        /\ SaAddr(bindArg) = (IF v6 THEN V6Any ELSE V4Any)
        /\ LastRc = 0 => sockets[ret.num].local = bindArg

C8_Witness ==
  /\ IsBind /\ ~args.address.isString /\ args.type = "udp6"
  /\ Made("bind") /\ LastRc = 0
  /\ SaAddr(sockets[ret.num].local) = V6Any

\* C9: the IPv4 option-set is made first; on an open socket the IPv6
\* option-set is made exactly when the socket's family is IPv6; a true
\* result on an IPv6 socket means both options are cleared; and the call
\* opens or closes no descriptor and changes no other socket.
C9_Ipv6AttemptedExactlyOnIpv6Sockets ==
  /\ [](IsDisable =>
          /\ steps[1].call = "setsockopt" /\ steps[1].arg = "IPPROTO_IP"
          /\ IsOpen(sockets, args.fd) =>
               /\ MadeOption("IPPROTO_IPV6") <=> sockets[args.fd].family = "AF_INET6"
               /\ (sockets[args.fd].family = "AF_INET6" /\ ret.bool) =>
                    (~sockets[args.fd].mcastAll4 /\ ~sockets[args.fd].mcastAll6))
  /\ [][op' = "disableSocketMulticastAll" =>
          /\ OpenFds(sockets') = OpenFds(sockets)
          /\ \A fd \in Fds \ {args'.fd} : sockets'[fd] = sockets[fd]]_vars

\* C10: the system calls made and the boolean returned do not depend on
\* what the address buffer held before getsockname.
C10_DeterministicInBufferContent ==
  IsDisable =>
    /\ Cardinality(possible) = 1
    /\ [success |-> ret.bool, steps |-> steps] \in possible

====
